---- MODULE Spec2Model ----
(***************************************************************************)
(* A model of rusty_money's monetary value engine: Money arithmetic,       *)
(* Money::from_str, Money::allocate and the Exchange rate store.           *)
(*                                                                         *)
(* Strings are sequences of one-character strings.  A Decimal is the       *)
(* triple rust_decimal keeps: a sign, a 96-bit mantissa and a scale; the   *)
(* mantissa is kept as its sequence of decimal digits, because parsed      *)
(* mantissas exceed the native integers of the model checker.              *)
(***************************************************************************)
EXTENDS Integers, Sequences, FiniteSets, TLC

VARIABLES
    money,   \* the Money value the caller holds (receiver of the operators)
    last,    \* the last call: its name, its arguments and what it returned
    map,     \* Exchange.map: the set of (key, ExchangeRate) entries
    hist     \* the set_rate calls made so far, oldest first

vars == <<money, last, map, hist>>

(***************************************************************************)
(* Bounds of the model.                                                    *)
(***************************************************************************)
MaxMajor == 12       \* from_major arguments range over -MaxMajor..MaxMajor
MaxHalves == 24      \* from_minor arguments are multiples of 50 up to 50*MaxHalves
MaxRatio == 3        \* ratios range over -1..MaxRatio
MaxRatios == 3       \* ratio sequences have at most MaxRatios entries
MaxMinor == 3        \* operands of the operators are -MaxMinor..MaxMinor minor units
MaxLen == 4          \* every string over Alphabet of at most MaxLen characters is parsed
MaxGroups == 4       \* grouped inputs have up to MaxGroups groups after the leftmost
MaxZeros == 30       \* long integers are 1 followed by up to MaxZeros zeros
MaxFrac == 18        \* long fractions have up to MaxFrac digits
MaxSets == 3         \* an Exchange receives at most MaxSets set_rate calls
MaxRound == 150      \* rounded amounts are -MaxRound..MaxRound minor units
MaxDigits == 3       \* round is asked for 0..MaxDigits fractional digits
MaxTenths == 16      \* conversion rates range over -MaxTenths..MaxTenths tenths

(***************************************************************************)
(* Results of calls: Ok(v), Err(e) and an abort (panic).                   *)
(***************************************************************************)
Ok(v) == [tag |-> "Ok", val |-> v]
Err(e) == [tag |-> "Err", err |-> e]
Panic(msg) == [tag |-> "Panic", msg |-> msg]

IsOk(r) == r.tag = "Ok"
IsErr(r, e) == r.tag = "Err" /\ r.err = e
IsPanic(r) == r.tag = "Panic"

\* a call that returns a plain value (a Money, a Decimal) aborted instead
Aborted(v) == "tag" \in DOMAIN v /\ v.tag = "Panic"

(***************************************************************************)
(* Natural numbers as digit sequences (most significant digit first, no    *)
(* leading zero, zero is <<0>>).                                           *)
(***************************************************************************)
\* ds from its first digit that is not zero on
StripLeading(ds) ==
    LET nonzero == {i \in 1..Len(ds) : ds[i] # 0}
    IN IF nonzero = {} THEN (IF ds = <<>> THEN <<>> ELSE <<0>>)
       ELSE SubSeq(ds, CHOOSE i \in nonzero : \A j \in nonzero : i <= j, Len(ds))

\* a digit sequence of zeros only
IsZeroDigits(ds) == StripLeading(ds) = <<0>>

RECURSIVE NatDigits(_)
NatDigits(n) ==
    IF n < 10 THEN <<n>> ELSE Append(NatDigits(n \div 10), n % 10)

RECURSIVE DigitsNat(_)
DigitsNat(ds) ==
    IF ds = <<>> THEN 0
    ELSE DigitsNat(SubSeq(ds, 1, Len(ds) - 1)) * 10 + ds[Len(ds)]

\* a < b for two digit sequences of one length: the first digit that differs
LexLess(a, b) ==
    \E i \in 1..Len(a) : a[i] < b[i] /\ \A j \in 1..(i - 1) : a[j] = b[j]

\* a < b for two digit sequences without leading zeros
NatLess(a, b) ==
    IF Len(a) # Len(b) THEN Len(a) < Len(b) ELSE LexLess(a, b)

\* ds + 1: the last digit below 9 is raised, the nines after it become zeros
NatInc(ds) ==
    LET below == {i \in 1..Len(ds) : ds[i] < 9}
    IN IF below = {} THEN <<1>> \o [i \in 1..Len(ds) |-> 0]
       ELSE LET k == CHOOSE i \in below : \A j \in below : j <= i
            IN <<>> \o [i \in 1..Len(ds) |->
                          IF i < k THEN ds[i] ELSE IF i = k THEN ds[i] + 1 ELSE 0]

Zeros(n) == <<>> \o [i \in 1..n |-> 0]

Abs(n) == IF n < 0 THEN -n ELSE n
Max(a, b) == IF a >= b THEN a ELSE b

Front(ds) == SubSeq(ds, 1, Len(ds) - 1)

\* ds with zeros in front, n digits long
PadTo(ds, n) == Zeros(n - Len(ds)) \o ds

\* the digits of an upper and of a lower half put together, with the carry
\* (or borrow) out of the upper half
JoinHalves(high, low) == [digits |-> high.digits \o low.digits, carry |-> high.carry]

\* a + b + carry for two digit sequences of one length: the digits of that
\* length and the carry out; a long sequence is added half by half, the lower
\* half first and its carry into the upper half
RECURSIVE AddDigits(_, _, _)
AddUpper(a, b, low) ==
    JoinHalves(AddDigits(SubSeq(a, 1, Len(a) \div 2), SubSeq(b, 1, Len(b) \div 2),
                         low.carry),
               low)

AddDigits(a, b, carry) ==
    IF carry = 0 /\ IsZeroDigits(b) THEN [digits |-> a, carry |-> 0]
    ELSE IF a = <<>> THEN [digits |-> <<>>, carry |-> carry]
    ELSE IF Len(a) = 1
    THEN [digits |-> <<(a[1] + b[1] + carry) % 10>>,
          carry |-> (a[1] + b[1] + carry) \div 10]
    ELSE AddUpper(a, b, AddDigits(SubSeq(a, Len(a) \div 2 + 1, Len(a)),
                                  SubSeq(b, Len(b) \div 2 + 1, Len(b)), carry))

SumDigits(sum) == StripLeading(<<sum.carry>> \o sum.digits)

NatAdd(a, b) ==
    SumDigits(AddDigits(PadTo(a, Max(Len(a), Len(b))), PadTo(b, Max(Len(a), Len(b))), 0))

\* a - b - borrow for two digit sequences of one length, the borrow out as
\* the carry
RECURSIVE SubDigits(_, _, _)
SubUpper(a, b, low) ==
    JoinHalves(SubDigits(SubSeq(a, 1, Len(a) \div 2), SubSeq(b, 1, Len(b) \div 2),
                         low.carry),
               low)

SubDigits(a, b, borrow) ==
    IF borrow = 0 /\ IsZeroDigits(b) THEN [digits |-> a, carry |-> 0]
    ELSE IF a = <<>> THEN [digits |-> <<>>, carry |-> borrow]
    ELSE IF Len(a) = 1
    THEN [digits |-> <<(a[1] - b[1] - borrow + 10) % 10>>,
          carry |-> IF a[1] - b[1] - borrow < 0 THEN 1 ELSE 0]
    ELSE SubUpper(a, b, SubDigits(SubSeq(a, Len(a) \div 2 + 1, Len(a)),
                                  SubSeq(b, Len(b) \div 2 + 1, Len(b)), borrow))

\* a - b for a >= b
NatSub(a, b) == StripLeading(SubDigits(a, PadTo(b, Len(a)), 0).digits)

\* a * k + carry for a digit sequence a and native k and carry
RECURSIVE MulDigits(_, _, _)
MulUpper(a, k, low) ==
    JoinHalves(MulDigits(SubSeq(a, 1, Len(a) \div 2), k, low.carry), low)

MulDigits(a, k, carry) ==
    IF carry = 0 /\ k = 1 THEN [digits |-> a, carry |-> 0]
    ELSE IF a = <<>> THEN [digits |-> <<>>, carry |-> carry]
    ELSE IF Len(a) = 1
    THEN [digits |-> <<(a[1] * k + carry) % 10>>, carry |-> (a[1] * k + carry) \div 10]
    ELSE MulUpper(a, k, MulDigits(SubSeq(a, Len(a) \div 2 + 1, Len(a)), k, carry))

ProductDigits(product) == StripLeading(NatDigits(product.carry) \o product.digits)

\* a * k for a native k
NatMulSmall(a, k) == ProductDigits(MulDigits(a, k, 0))

RECURSIVE NatMul(_, _)
NatMul(a, b) ==
    IF b = <<>> THEN <<0>>
    ELSE IF Len(b) = 1 THEN NatMulSmall(a, b[1])
    ELSE NatAdd(StripLeading(NatMul(a, Front(b)) \o <<0>>), NatMulSmall(a, b[Len(b)]))

\* long division of (r, a) by a native k > r: the quotient digits, as many as
\* a has, and the remainder; the upper half first and its remainder into the
\* lower half
RECURSIVE DivDigits(_, _, _)
JoinQuotients(high, low) == [q |-> high.q \o low.q, r |-> low.r]

DivLower(a, k, high) ==
    JoinQuotients(high, DivDigits(SubSeq(a, Len(a) \div 2 + 1, Len(a)), k, high.r))

DivDigits(a, k, r) ==
    IF a = <<>> THEN [q |-> <<>>, r |-> r]
    ELSE IF Len(a) = 1 THEN [q |-> <<(r * 10 + a[1]) \div k>>, r |-> (r * 10 + a[1]) % k]
    ELSE DivLower(a, k, DivDigits(SubSeq(a, 1, Len(a) \div 2), k, r))

QuotientDigits(d) == [q |-> StripLeading(d.q), r |-> d.r]

\* quotient and remainder of a by a native k > 0
NatDivSmall(a, k) == QuotientDigits(DivDigits(a, k, 0))

RECURSIVE Pow10(_)
Pow10(n) == IF n <= 0 THEN 1 ELSE 10 * Pow10(n - 1)



(***************************************************************************)
(* rust_decimal::Decimal.                                                  *)
(***************************************************************************)
\* 2^96, the first mantissa that does not fit (overflow_128 in rust_decimal)
OVERFLOW_U96 == <<7,9,2,2,8,1,6,2,5,1,4,2,6,4,3,3,7,5,9,3,5,4,3,9,5,0,3,3,6>>
\* (2^96 + 4) / 10, the mantissa maybe_round leaves when rounding up overflows
ROUNDED_U96 == <<7,9,2,2,8,1,6,2,5,1,4,2,6,4,3,3,7,5,9,3,5,4,3,9,5,0,3,4>>
Overflow96(ds) == ~NatLess(ds, OVERFLOW_U96)

\* the largest i64, the magnitude of the smallest, and 2^96 - 1
I64_MAX == <<9,2,2,3,3,7,2,0,3,6,8,5,4,7,7,5,8,0,7>>
I64_MIN_ABS == <<9,2,2,3,3,7,2,0,3,6,8,5,4,7,7,5,8,0,8>>
U96_MAX == <<7,9,2,2,8,1,6,2,5,1,4,2,6,4,3,3,7,5,9,3,5,4,3,9,5,0,3,3,5>>

\* Decimal::from_parts: a zero mantissa carries no sign
DecimalFromParts(negative, digits, scale) ==
    [neg |-> negative /\ ~IsZeroDigits(digits),
     digits |-> StripLeading(digits),
     scale |-> scale]

\* a machine integer (i64, i128) given as its sign and its decimal digits
IntOf(neg, digits) ==
    [neg |-> neg /\ ~IsZeroDigits(digits), digits |-> StripLeading(digits)]

\* the machine integer of a native integer of the model
IntLit(n) == IntOf(n < 0, NatDigits(Abs(n)))

\* Decimal::new(num, scale) and Decimal::from_i128_with_scale(num, scale)
DecimalNew(num, scale) == DecimalFromParts(num.neg, num.digits, scale)

\* a Decimal of a native integer mantissa
Dec(m, scale) == DecimalNew(IntLit(m), scale)

\* the signed mantissa as a native integer (the model's amounts are small)
Mant(d) == IF d.neg THEN -DigitsNat(d.digits) ELSE DigitsNat(d.digits)

DecZERO == Dec(0, 0)
DecONE == Dec(1, 0)

\* ds without its trailing zeros, at most `scale` of them and never all digits
StripTrailing(ds, scale) ==
    LET most == IF scale < Len(ds) - 1 THEN scale ELSE Len(ds) - 1
        zeros == {k \in 0..most : \A i \in 1..k : ds[Len(ds) + 1 - i] = 0}
        k == CHOOSE n \in zeros : \A m \in zeros : m <= n
    IN [digits |-> SubSeq(ds, 1, Len(ds) - k), scale |-> scale - k]

\* the value of a Decimal, independent of its scale
Normalize(d) ==
    IF IsZeroDigits(d.digits) THEN [neg |-> FALSE, digits |-> <<0>>, scale |-> 0]
    ELSE LET s == StripTrailing(d.digits, d.scale)
         IN [neg |-> d.neg, digits |-> s.digits, scale |-> s.scale]

\* impl PartialEq for Decimal: numeric equality, the scale does not matter
DecEq(a, b) == Normalize(a) = Normalize(b)

\* the mantissa of d rescaled to `scale` fractional digits (scale >= d.scale)
MantAt(d, scale) == Mant(d) * Pow10(scale - d.scale)

\* the mantissa digits of d rescaled to `scale` fractional digits
DigitsAt(d, scale) == StripLeading(d.digits \o Zeros(scale - d.scale))

\* digits without its last k digits, rounded half to even on what is dropped
RoundDropped(digits, k) ==
    LET p == IF Len(digits) > k THEN digits ELSE PadTo(digits, k + 1)
        kept == SubSeq(p, 1, Len(p) - k)
        dropped == SubSeq(p, Len(p) - k + 1, Len(p))
        up == /\ k > 0
              /\ \/ dropped[1] > 5
                 \/ /\ dropped[1] = 5
                    /\ \/ \E i \in 2..k : dropped[i] # 0
                       \/ kept[Len(kept)] % 2 = 1
    IN StripLeading(IF up THEN NatInc(kept) ELSE kept)

\* the Decimal of an exact result digits * 10^(-scale): the scale is lowered,
\* k digits at a time dropped and rounded, until it is at most 28 and the
\* mantissa fits 96 bits; a result that does not fit at scale 0 aborts
RECURSIVE FitRound(_, _, _, _, _)
FitRounded(neg, digits, scale, k, msg, rounded) ==
    IF Overflow96(rounded) \/ scale - k > 28
    THEN FitRound(neg, digits, scale, k + 1, msg)
    ELSE DecimalFromParts(neg, rounded, scale - k)

FitRound(neg, digits, scale, k, msg) ==
    IF k > scale THEN Panic(msg)
    ELSE FitRounded(neg, digits, scale, k, msg, RoundDropped(digits, k))

DecNeg(a) == DecimalFromParts(~a.neg, a.digits, a.scale)

\* Add for Decimal: the operands are brought to the larger scale
SignedAdd(a, b, msg) ==
    LET s == Max(a.scale, b.scale)
        x == DigitsAt(a, s)
        y == DigitsAt(b, s)
    IN IF a.neg = b.neg THEN FitRound(a.neg, NatAdd(x, y), s, 0, msg)
       ELSE IF NatLess(x, y) THEN FitRound(b.neg, NatSub(y, x), s, 0, msg)
       ELSE FitRound(a.neg, NatSub(x, y), s, 0, msg)

DecAdd(a, b) == SignedAdd(a, b, "Addition overflowed")

DecSub(a, b) == SignedAdd(a, DecNeg(b), "Subtraction overflowed")

\* Mul for Decimal: the scales add up
DecMul(a, b) ==
    FitRound(a.neg # b.neg, NatMul(a.digits, b.digits), a.scale + b.scale, 0,
             "Multiplication overflowed")

\* one turn of the division loop: while a remainder is left, one more
\* fractional digit is taken, as long as the scale stays within 28 and the
\* mantissa within 96 bits
ExtendStep(e, divisor) ==
    IF e.r = 0 \/ e.scale >= 28 THEN e
    ELSE LET next == StripLeading(Append(e.q, (e.r * 10) \div divisor))
         IN IF Overflow96(next) THEN e
            ELSE [q |-> next, r |-> (e.r * 10) % divisor, scale |-> e.scale + 1]

\* n turns of the division loop, half of them at a time; a loop that has
\* stopped stays stopped
RECURSIVE ExtendBy(_, _, _)
ExtendOn(half, divisor, n, scale) ==
    IF half.scale < scale THEN half ELSE ExtendBy(half, divisor, n)

ExtendBy(e, divisor, n) ==
    IF n <= 0 THEN e
    ELSE IF n = 1 THEN ExtendStep(e, divisor)
    ELSE ExtendOn(ExtendBy(e, divisor, n \div 2), divisor, n - n \div 2,
                  e.scale + n \div 2)

\* the division loop from a quotient q with remainder r at `scale`
Extend(q, r, divisor, scale) ==
    ExtendBy([q |-> q, r |-> r, scale |-> scale], divisor, 28 - scale)

\* the quotient e the division loop has left, rounded half to even on its
\* remainder
DivRound(neg, e, divisor) ==
    FitRound(neg,
             IF \/ 2 * e.r > divisor
                \/ 2 * e.r = divisor /\ e.q[Len(e.q)] % 2 = 1
             THEN NatInc(e.q) ELSE e.q,
             e.scale, 0, "Division overflowed")

\* the division from the whole quotient `first` on
DivExtend(neg, first, divisor, scale) ==
    DivRound(neg, Extend(first.q, first.r, divisor, scale), divisor)

\* Div for Decimal, for a divisor whose mantissa is a native integer: the
\* quotient is taken to as many digits as a Decimal holds, then rounded half
\* to even on the remainder
DecDiv(a, b) ==
    IF IsZeroDigits(b.digits) THEN Panic("Division by zero")
    ELSE DivExtend(a.neg # b.neg,
                   NatDivSmall(DigitsAt(a, Max(a.scale, b.scale)), DigitsNat(b.digits)),
                   DigitsNat(b.digits), Max(a.scale - b.scale, 0))

DecLess(a, b) ==
    LET s == Max(a.scale, b.scale)
        x == DigitsAt(a, s)
        y == DigitsAt(b, s)
    IN IF a.neg # b.neg THEN a.neg
       ELSE IF a.neg THEN NatLess(y, x) ELSE NatLess(x, y)

\* Ord::cmp on Decimal
DecCmp(a, b) ==
    IF DecLess(a, b) THEN "Less" ELSE IF DecLess(b, a) THEN "Greater" ELSE "Equal"

\* Decimal::floor: the largest whole number not above a, at scale 0
DecFloor(a) ==
    LET p == IF Len(a.digits) > a.scale THEN a.digits ELSE PadTo(a.digits, a.scale + 1)
        whole == SubSeq(p, 1, Len(p) - a.scale)
        fraction == SubSeq(p, Len(p) - a.scale + 1, Len(p))
    IN DecimalFromParts(a.neg,
                        IF a.neg /\ ~IsZeroDigits(<<0>> \o fraction)
                        THEN NatInc(whole) ELSE whole,
                        0)

(***************************************************************************)
(* Strings and the standard parsers the code calls.                        *)
(***************************************************************************)
DigitChars == {"0", "1", "2", "3", "4", "5", "6", "7", "8", "9"}

IsDigit(c) == c \in DigitChars

DigitVal(c) ==
    CASE c = "0" -> 0 [] c = "1" -> 1 [] c = "2" -> 2 [] c = "3" -> 3
      [] c = "4" -> 4 [] c = "5" -> 5 [] c = "6" -> 6 [] c = "7" -> 7
      [] c = "8" -> 8 [] c = "9" -> 9

DigitChar(d) ==
    CASE d = 0 -> "0" [] d = 1 -> "1" [] d = 2 -> "2" [] d = 3 -> "3"
      [] d = 4 -> "4" [] d = 5 -> "5" [] d = 6 -> "6" [] d = 7 -> "7"
      [] d = 8 -> "8" [] d = 9 -> "9"

AllDigits(str) == \A i \in 1..Len(str) : IsDigit(str[i])

\* the digits of a string of digit characters
DigitsOf(str) == [i \in 1..Len(str) |-> DigitVal(str[i])]

\* i32::to_string
I32ToString(x) ==
    LET ds == NatDigits(Abs(x))
        body == [i \in 1..Len(ds) |-> DigitChar(ds[i])]
    IN IF x < 0 THEN <<"-">> \o body ELSE body

I32_MAX == <<2,1,4,7,4,8,3,6,4,7>>
I32_MIN_ABS == <<2,1,4,7,4,8,3,6,4,8>>

\* i32::from_str: an optional sign, then one or more digits, within the i32
\* range.  Only success or failure matters to the caller (the value is dropped).
I32FromStr(str) ==
    LET signed == str # <<>> /\ str[1] \in {"+", "-"}
        body == IF signed THEN Tail(str) ELSE str
        negative == signed /\ str[1] = "-"
    IN IF body = <<>> \/ ~AllDigits(body) THEN Err("ParseIntError")
       ELSE LET v == StripLeading(DigitsOf(body))
            IN IF negative
               THEN IF NatLess(I32_MIN_ABS, v) THEN Err("ParseIntError") ELSE Ok("i32")
               ELSE IF NatLess(I32_MAX, v) THEN Err("ParseIntError") ELSE Ok("i32")

\* rust_decimal's maybe_round: the mantissa is full; the next byte rounds it and
\* the bytes after it are not read.
MaybeRound(data, next_byte, scale, negative) ==
    IF ~IsDigit(next_byte) THEN Err("Invalid decimal: invalid character")
    ELSE IF DigitVal(next_byte) >= 5
         THEN LET up == NatInc(data)
              IN IF Overflow96(up)
                 THEN IF scale = 0
                      THEN Err("Invalid decimal: overflow from mantissa after rounding")
                      ELSE Ok(DecimalFromParts(negative, ROUNDED_U96, scale - 1))
                 ELSE Ok(DecimalFromParts(negative, up, scale))
         ELSE Ok(DecimalFromParts(negative, data, scale))

\* rust_decimal's parse_str_radix_10 after the sign, while it reads: the digits
\* read so far (data), the scale, whether the point and whether a digit have
\* been seen; and once it has returned
Reading(data, scale, point, has) ==
    [returned |-> FALSE, data |-> data, scale |-> scale, point |-> point, has |-> has]

Returned(out) == [returned |-> TRUE, out |-> out]

\* the reading of the i-th byte
ParseByte(bytes, i, s, negative) ==
    LET b == bytes[i]
        next == StripLeading(Append(s.data, DigitVal(b)))
        scale2 == IF s.point THEN s.scale + 1 ELSE s.scale
    IN IF IsDigit(b)
       THEN IF Overflow96(next)
            THEN IF s.point THEN Returned(MaybeRound(s.data, b, s.scale, negative))
                 ELSE Returned(Err("Invalid decimal: overflow from too many digits"))
            ELSE IF i < Len(bytes) /\ s.point /\ scale2 >= 28
                 THEN Returned(MaybeRound(next, bytes[i + 1], scale2, negative))
                 ELSE Reading(next, scale2, s.point, TRUE)
       ELSE IF b = "." /\ ~s.point
            THEN Reading(s.data, s.scale, TRUE, s.has)
            ELSE Returned(Err("Invalid decimal: invalid character"))

\* the bytes i..j read in turn, half of them at a time; no byte is read after
\* the return
RECURSIVE ParseBytes(_, _, _, _, _)
ParseBytes(bytes, i, j, s, negative) ==
    IF s.returned \/ i > j THEN s
    ELSE IF i = j THEN ParseByte(bytes, i, s, negative)
    ELSE ParseBytes(bytes, (i + j) \div 2 + 1, j,
                    ParseBytes(bytes, i, (i + j) \div 2, s, negative), negative)

\* the end of the input
ParseEnd(s, negative) ==
    IF s.returned THEN s.out
    ELSE IF s.has THEN Ok(DecimalFromParts(negative, s.data, s.scale))
    ELSE Err("Invalid decimal: no digits found")

ParseRadix10(bytes, i, data, scale, point, has, negative) ==
    ParseEnd(ParseBytes(bytes, i, Len(bytes), Reading(data, scale, point, has), negative),
             negative)

\* Decimal::from_str
DecimalFromStr(str) ==
    IF str = <<>> THEN Err("Invalid decimal: empty")
    ELSE IF str[1] \in {"+", "-"}
         THEN ParseRadix10(str, 2, <<0>>, 0, FALSE, FALSE, str[1] = "-")
         ELSE ParseRadix10(str, 1, <<0>>, 0, FALSE, FALSE, FALSE)

(***************************************************************************)
(* Currencies: the currency set the tests define, and the locale formats.  *)
(***************************************************************************)
exponent(currency) ==
    CASE currency = "USD" -> 2 [] currency = "GBP" -> 2 [] currency = "EUR" -> 2
      [] currency = "INR" -> 2 [] currency = "BHD" -> 3 [] currency = "AED" -> 2
      [] currency = "ETH" -> 18

locale(currency) ==
    CASE currency = "EUR" -> "EnEu" [] currency = "INR" -> "EnIn"
      [] OTHER -> "EnUs"

(***************************************************************************)
(* Money: construction and the operators.                                  *)
(***************************************************************************)
from_decimal(amount, currency) == [amount |-> amount, currency |-> currency]

\* from_minor with a fault: the minor units are taken as major units
from_minor_Unscaled(amount, currency) ==
    [amount |-> DecimalNew(amount, 0), currency |-> currency]

\* from_minor: Decimal::from_i128_with_scale(amount, currency.exponent()), which
\* aborts when the 128-bit amount does not fit the 96-bit mantissa
from_minor(amount, currency) ==
    IF Overflow96(amount.digits)
    THEN Panic("Number exceeds maximum value that can be represented")
    ELSE [amount |-> DecimalNew(amount, exponent(currency)), currency |-> currency]

\* from_major: Decimal::new(amount, 0)
from_major(amount, currency) ==
    [amount |-> DecimalNew(amount, 0), currency |-> currency]

\* derive(PartialEq) with a fault: the currencies are not compared
MoneyEq_AmountOnly(a, b) == DecEq(a.amount, b.amount)

\* derive(PartialEq) on Money: the amounts are equal Decimals, the currencies equal
MoneyEq(a, b) == DecEq(a.amount, b.amount) /\ a.currency = b.currency

\* the Money of a Decimal result, or the abort of the Decimal operator
Wrap(amount, currency) ==
    IF Aborted(amount) THEN amount ELSE Ok(from_decimal(amount, currency))

add(self, other) ==
    IF self.currency # other.currency THEN Panic("explicit panic")
    ELSE Wrap(DecAdd(self.amount, other.amount), self.currency)

sub(self, other) ==
    IF self.currency # other.currency THEN Panic("explicit panic")
    ELSE Wrap(DecSub(self.amount, other.amount), self.currency)

\* add_assign with a fault: the currencies are not compared
add_assign_Unchecked(self, other) ==
    Wrap(DecAdd(self.amount, other.amount), self.currency)

\* add_assign: Ok carries the value *self is assigned; a panic assigns nothing
add_assign(self, other) ==
    IF self.currency # other.currency THEN Panic("explicit panic")
    ELSE Wrap(DecAdd(self.amount, other.amount), self.currency)

sub_assign(self, other) ==
    IF self.currency # other.currency THEN Panic("explicit panic")
    ELSE Wrap(DecSub(self.amount, other.amount), self.currency)

cmp(self, other) ==
    IF self.currency # other.currency THEN Panic("explicit panic")
    ELSE Ok(DecCmp(self.amount, other.amount))

\* partial_cmp: Some(self.cmp(other)); a panic of cmp passes through
partial_cmp(self, other) ==
    LET c == cmp(self, other)
    IN IF IsPanic(c) THEN c ELSE Ok([some |-> c.val])

(***************************************************************************)
(* Money::allocate and allocate_to.                                        *)
(***************************************************************************)
\* ratios.iter().map(|x| Decimal::from_str(&x.to_string()).unwrap())
RatioDecimals(ratios) ==
    [i \in 1..Len(ratios) |-> DecimalFromStr(I32ToString(ratios[i])).val]

RECURSIVE RatioTotal(_)
RatioTotal(ratios) ==
    IF ratios = <<>> THEN DecZERO
    ELSE DecAdd(RatioTotal(SubSeq(ratios, 1, Len(ratios) - 1)), ratios[Len(ratios)])

\* the first loop of allocate, from its i-th ratio on; an abort of a Decimal
\* operator ends it
RECURSIVE AllocShares(_, _, _, _, _, _)
\* allocations.push(share); remainder -= share
AllocPush(self, ratios, ratio_total, i, allocations, remainder, share) ==
    AllocShares(self, ratios, ratio_total, i + 1,
                Append(allocations, from_decimal(share, self.currency)),
                DecSub(remainder, share))

\* (product / ratio_total).floor()
AllocFloor(self, ratios, ratio_total, i, allocations, remainder, quotient) ==
    IF Aborted(quotient) THEN quotient
    ELSE AllocPush(self, ratios, ratio_total, i, allocations, remainder,
                   DecFloor(quotient))

\* self.amount * ratio / ratio_total
AllocDivide(self, ratios, ratio_total, i, allocations, remainder, product) ==
    IF Aborted(product) THEN product
    ELSE AllocFloor(self, ratios, ratio_total, i, allocations, remainder,
                    DecDiv(product, ratio_total))

AllocShares(self, ratios, ratio_total, i, allocations, remainder) ==
    IF Aborted(remainder) THEN remainder
    ELSE IF i > Len(ratios)
    THEN [tag |-> "Shares", allocations |-> allocations, remainder |-> remainder]
    ELSE IF ~DecLess(DecZERO, ratios[i]) THEN Err("InvalidRatio")
    ELSE AllocDivide(self, ratios, ratio_total, i, allocations, remainder,
                     DecMul(self.amount, ratios[i]))

\* GiveUnit with a fault: the unit is dropped
GiveUnit_Dropped(allocations, i) == allocations

\* GiveUnit with a fault: every unit goes to the first share
GiveUnit_ToFirst(allocations, i) ==
    [allocations EXCEPT ![1].amount = DecAdd(@, DecONE)]

\* allocations[i].amount += Decimal::ONE
GiveUnit(allocations, i) ==
    [allocations EXCEPT ![i].amount = DecAdd(@, DecONE)]

\* the while loop of allocate, from index i on (indices start at 1 here)
RECURSIVE Distribute(_, _, _)
Distribute(allocations, remainder, i) ==
    IF ~DecLess(DecZERO, remainder) THEN Ok(allocations)
    ELSE IF i > Len(allocations) THEN Panic("index out of bounds")
    ELSE Distribute(GiveUnit(allocations, i), DecSub(remainder, DecONE), i + 1)

\* allocate after its first loop: the checks of the remainder and the
\* distribution
AllocRemainder(shares) ==
    IF shares.tag # "Shares" THEN shares
    ELSE IF DecLess(shares.remainder, DecZERO)
         THEN Panic("Remainder was negative, should be 0 or positive")
    ELSE IF ~DecEq(DecSub(shares.remainder, DecFloor(shares.remainder)), DecZERO)
         THEN Panic("Remainder is not an integer, should be an integer")
    ELSE Distribute(shares.allocations, shares.remainder, 1)

\* allocate with its ratios as Decimals
AllocateDecimals(self, decs) ==
    AllocRemainder(AllocShares(self, decs, RatioTotal(decs), 1, <<>>, self.amount))

allocate(self, ratios) ==
    IF ratios = <<>> THEN Err("InvalidRatio")
    ELSE AllocateDecimals(self, RatioDecimals(ratios))

\* (0..number).map(|_| 1).collect(): empty when number <= 0
allocate_to(self, number) ==
    allocate(self, [i \in 1..(IF number > 0 THEN number ELSE 0) |-> 1])

(***************************************************************************)
(* The allocation specification: a Money value and the arguments of one    *)
(* call are drawn, then the call is made.                                  *)
(***************************************************************************)
Pending == [op |-> "pending"]

AllocCurrencies == {"USD", "GBP"}

AllocMoney ==
    {from_major(IntLit(n), c) : n \in (-MaxMajor)..MaxMajor, c \in AllocCurrencies}
    \cup {from_minor(IntLit(50 * n), c) : n \in (-MaxHalves)..MaxHalves, c \in AllocCurrencies}

RatioSeqs == UNION {[1..n -> (-1)..MaxRatio] : n \in 0..MaxRatios}

InitAlloc ==
    /\ money \in AllocMoney
    /\ last = Pending
    /\ map = {}
    /\ hist = <<>>

Allocate ==
    /\ last = Pending
    /\ \E ratios \in RatioSeqs :
          last' = [op |-> "allocate", ratios |-> ratios, out |-> allocate(money, ratios)]
    /\ UNCHANGED <<money, map, hist>>

AllocateTo ==
    /\ last = Pending
    /\ \E number \in (-1)..(MaxRatios + 1) :
          last' = [op |-> "allocate_to", number |-> number,
                   out |-> allocate_to(money, number)]
    /\ UNCHANGED <<money, map, hist>>

NextAlloc == Allocate \/ AllocateTo

SpecAlloc == InitAlloc /\ [][NextAlloc]_vars

RECURSIVE SumAmounts(_)
SumAmounts(monies) ==
    IF monies = <<>> THEN DecZERO
    ELSE DecAdd(SumAmounts(SubSeq(monies, 1, Len(monies) - 1)),
                monies[Len(monies)].amount)

AllocatedOk == last.op = "allocate" /\ IsOk(last.out)

AllPositive(ratios) == ratios # <<>> /\ \A i \in 1..Len(ratios) : ratios[i] > 0

\* C1: whenever allocate returns shares, they are as many as the ratios, each
\* carries the currency of the allocated Money, and their amounts sum to its amount.
C1_SharesConserveAmount ==
    AllocatedOk =>
        /\ Len(last.out.val) = Len(last.ratios)
        /\ \A i \in 1..Len(last.out.val) : last.out.val[i].currency = money.currency
        /\ DecEq(SumAmounts(last.out.val), money.amount)

\* C1 witness: shares were returned after a remainder of two units was handed out.
C1_Witness ==
    /\ AllocatedOk
    /\ Len(last.ratios) = 3
    /\ Mant(SumAmounts(last.out.val)) = 11
    /\ \E i \in 1..3 : Mant(last.out.val[i].amount) = 4
    /\ \E i \in 1..3 : Mant(last.out.val[i].amount) = 3

\* C2 (as claimed): an empty ratio sequence, or one holding a ratio <= 0 at any
\* position, makes allocate return Err(InvalidRatio).
C2_NonPositiveRatioIsInvalidRatio ==
    (last.op = "allocate" /\ ~AllPositive(last.ratios)) =>
        IsErr(last.out, "InvalidRatio")

MaxDiff(monies) ==
    LET ms == {Mant(monies[i].amount) : i \in 1..Len(monies)}
    IN (CHOOSE x \in ms : \A y \in ms : y <= x) - (CHOOSE x \in ms : \A y \in ms : x <= y)

\* C3 (as claimed): for any sequence of positive ratios, two returned shares
\* differ by at most one unit.
C3_SharesWithinOneUnit ==
    (AllocatedOk /\ AllPositive(last.ratios)) => MaxDiff(last.out.val) <= 1

AllEqual(ratios) == \A i, j \in 1..Len(ratios) : ratios[i] = ratios[j]

\* C3 (amended): for a sequence of equal positive ratios, two returned shares
\* differ by at most one unit.
C3_EqualRatiosWithinOneUnit ==
    (AllocatedOk /\ AllPositive(last.ratios) /\ AllEqual(last.ratios)) =>
        MaxDiff(last.out.val) <= 1

\* C3 witness: three equal ratios, a remainder of two units, shares one unit apart.
C3_Witness ==
    /\ AllocatedOk
    /\ Len(last.ratios) = 3
    /\ AllPositive(last.ratios) /\ AllEqual(last.ratios)
    /\ Mant(money.amount) % Pow10(money.amount.scale) = 0
    /\ (Mant(money.amount) \div Pow10(money.amount.scale)) % 3 = 2
    /\ MaxDiff(last.out.val) = 1

(***************************************************************************)
(* The allocation specification at the limits of Decimal: the Money holds  *)
(* a mantissa of 29 digits, as from_decimal and from_str return.           *)
(***************************************************************************)
\* 70000000000000000000000000001, 30000000000000000000000000000 and
\* 2.9999999999999999999999999999, all below 2^96, and the largest i64
WideDecimals ==
    {DecimalFromParts(neg, digits, 0) :
        neg \in BOOLEAN,
        digits \in {<<7>> \o Zeros(27) \o <<1>>, <<3>> \o Zeros(28), I64_MAX}}
    \cup {DecimalFromParts(neg, <<2>> \o [i \in 1..28 |-> 9], 28) : neg \in BOOLEAN}

WideMoney == {from_decimal(d, c) : d \in WideDecimals, c \in AllocCurrencies}

InitAllocWide ==
    /\ money \in WideMoney
    /\ last = Pending
    /\ map = {}
    /\ hist = <<>>

SpecAllocWide == InitAllocWide /\ [][NextAlloc]_vars

\* an amount without a fractional part
IsWhole(d) == DecEq(d, DecFloor(d))

\* the i-th of n even shares of a whole amount a: floor(a/n), and one more for
\* the first (a mod n) of them
EvenShare(a, n, i) ==
    LET w == DecFloor(a)
        d == NatDivSmall(w.digits, n)
        low == IF w.neg /\ d.r # 0
               THEN DecimalFromParts(TRUE, NatInc(d.q), 0)
               ELSE DecimalFromParts(w.neg, d.q, 0)
        mod == IF w.neg /\ d.r # 0 THEN n - d.r ELSE d.r
    IN IF i <= mod THEN DecAdd(low, DecONE) ELSE low

\* C16: allocate_to(n) returns what allocate returns for n ratios of 1: the
\* error InvalidRatio for n <= 0, and for n > 0 and a whole amount a, n shares of
\* the currency of which the first (a mod n) are floor(a/n) + 1 and the others
\* floor(a/n); 11.00 into 3 gives 4, 4, 3.
C16_AllocateToSplitsEvenly ==
    last.op = "allocate_to" =>
        LET n == last.number
        IN /\ last.out = allocate(money, [i \in 1..(IF n > 0 THEN n ELSE 0) |-> 1])
           /\ n <= 0 => IsErr(last.out, "InvalidRatio")
           /\ (n > 0 /\ IsWhole(money.amount)) =>
                 /\ IsOk(last.out)
                 /\ Len(last.out.val) = n
                 /\ \A i \in 1..n :
                       /\ last.out.val[i].currency = money.currency
                       /\ DecEq(last.out.val[i].amount, EvenShare(money.amount, n, i))
           /\ (MoneyEq(money, from_minor(IntLit(1100), "USD")) /\ n = 3) =>
                 last.out = Ok(<<from_major(IntLit(4), "USD"),
                                 from_major(IntLit(4), "USD"),
                                 from_major(IntLit(3), "USD")>>)

\* C17: for a non-empty sequence of positive ratios, allocate aborts exactly
\* when the amount has a fractional part, and for a whole amount it returns
\* shares, each a whole number of units.
C17_AbortsExactlyOnFraction ==
    (last.op = "allocate" /\ AllPositive(last.ratios)) =>
        /\ IsPanic(last.out) <=> ~IsWhole(money.amount)
        /\ IsWhole(money.amount) =>
              /\ IsOk(last.out)
              /\ \A i \in 1..Len(last.out.val) : IsWhole(last.out.val[i].amount)

\* the shares and the remainder allocate holds after its first loop
SharesOf(self, ratios) ==
    LET decs == RatioDecimals(ratios)
    IN AllocShares(self, decs, RatioTotal(decs), 1, <<>>, self.amount)

\* C18: for every amount and every non-empty sequence of positive ratios, the
\* remainder allocate computes is at least 0 and less than the number of
\* ratios, so allocate aborts neither for a negative remainder nor for an
\* index past the last share, and a returned share is the floored share or
\* one unit more, the units going to the first shares in order.
C18_RemainderBelowShares ==
    (last.op = "allocate" /\ AllPositive(last.ratios)) =>
        LET s == SharesOf(money, last.ratios)
            n == Len(last.ratios)
        IN s.tag = "Shares" =>
              /\ ~DecLess(s.remainder, DecZERO)
              /\ DecLess(s.remainder, Dec(n, 0))
              /\ last.out # Panic("Remainder was negative, should be 0 or positive")
              /\ last.out # Panic("index out of bounds")
              /\ IsOk(last.out) =>
                    \A i \in 1..n :
                       DecEq(last.out.val[i].amount,
                             IF DecLess(Dec(i - 1, 0), s.remainder)
                             THEN DecAdd(s.allocations[i].amount, DecONE)
                             ELSE s.allocations[i].amount)

(***************************************************************************)
(* The operator specification: two Money values are drawn and one          *)
(* operator is applied to them.                                            *)
(***************************************************************************)
OpsCurrencies == {"USD", "GBP", "BHD"}

OpsMoney == {from_minor(IntLit(n), c) : n \in (-MaxMinor)..MaxMinor, c \in OpsCurrencies}

InitOps ==
    /\ money \in OpsMoney
    /\ last = Pending
    /\ map = {}
    /\ hist = <<>>

Call(op, other, out) == [op |-> op, self |-> money, other |-> other, out |-> out]

Add ==
    /\ last = Pending
    /\ \E other \in OpsMoney : last' = Call("add", other, add(money, other))
    /\ UNCHANGED <<money, map, hist>>

Sub ==
    /\ last = Pending
    /\ \E other \in OpsMoney : last' = Call("sub", other, sub(money, other))
    /\ UNCHANGED <<money, map, hist>>

AddAssign ==
    /\ last = Pending
    /\ \E other \in OpsMoney :
          LET out == add_assign(money, other)
          IN /\ last' = Call("add_assign", other, out)
             /\ money' = IF IsOk(out) THEN out.val ELSE money
    /\ UNCHANGED <<map, hist>>

SubAssign ==
    /\ last = Pending
    /\ \E other \in OpsMoney :
          LET out == sub_assign(money, other)
          IN /\ last' = Call("sub_assign", other, out)
             /\ money' = IF IsOk(out) THEN out.val ELSE money
    /\ UNCHANGED <<map, hist>>

Cmp ==
    /\ last = Pending
    /\ \E other \in OpsMoney : last' = Call("cmp", other, cmp(money, other))
    /\ UNCHANGED <<money, map, hist>>

PartialCmp ==
    /\ last = Pending
    /\ \E other \in OpsMoney :
          last' = Call("partial_cmp", other, partial_cmp(money, other))
    /\ UNCHANGED <<money, map, hist>>

\* the comparison operators <, <=, >, >= : PartialOrd's provided methods
Compare(opr, self, other) ==
    LET c == partial_cmp(self, other)
    IN IF IsPanic(c) THEN c
       ELSE Ok(CASE opr = "lt" -> c.val.some = "Less"
                 [] opr = "le" -> c.val.some \in {"Less", "Equal"}
                 [] opr = "gt" -> c.val.some = "Greater"
                 [] opr = "ge" -> c.val.some \in {"Greater", "Equal"})

Relational ==
    /\ last = Pending
    /\ \E other \in OpsMoney, opr \in {"lt", "le", "gt", "ge"} :
          last' = Call(opr, other, Compare(opr, money, other))
    /\ UNCHANGED <<money, map, hist>>

\* the right operands of == and != : also whole amounts kept at scale 0
EqOperands ==
    OpsMoney \cup {from_major(IntLit(n), c) : n \in -1..1, c \in OpsCurrencies}

\* the operators == and != : PartialEq::eq and its provided method ne
Equality ==
    /\ last = Pending
    /\ \E other \in EqOperands :
          \/ last' = Call("eq", other, Ok(MoneyEq(money, other)))
          \/ last' = Call("ne", other, Ok(~MoneyEq(money, other)))
    /\ UNCHANGED <<money, map, hist>>

NextOps ==
    Add \/ Sub \/ AddAssign \/ SubAssign \/ Cmp \/ PartialCmp \/ Relational \/ Equality

SpecOps == InitOps /\ [][NextOps]_vars

BinaryOps == {"add", "sub", "add_assign", "sub_assign", "cmp", "partial_cmp",
              "lt", "le", "gt", "ge"}

\* C4: every binary operator on two Money values of different currencies
\* aborts, and an assign form leaves its left operand as it was.
C4_MismatchAborts ==
    (last.op \in BinaryOps /\ last.self.currency # last.other.currency) =>
        IsPanic(last.out) /\ money = last.self

\* C4 witness: an add-assign of a Money of another currency has been attempted.
C4_Witness ==
    /\ last.op = "add_assign"
    /\ last.self.currency = "USD" /\ last.other.currency = "GBP"
    /\ Mant(last.other.amount) # 0
    /\ IsPanic(last.out)

\* the same currency and the same numeric amount
SameMoney(a, b) ==
    LET s == Max(a.amount.scale, b.amount.scale)
    IN a.currency = b.currency /\ MantAt(a.amount, s) = MantAt(b.amount, s)

\* C14: == is true exactly when the currencies are equal and the amounts are
\* equal, != is its negation, and neither aborts: between Money values of
\* different currencies they report not equal.
C14_EqualityIsTotal ==
    /\ last.op = "eq" =>
          IsOk(last.out) /\ (last.out.val <=> SameMoney(last.self, last.other))
    /\ last.op = "ne" =>
          IsOk(last.out) /\ (last.out.val <=> ~SameMoney(last.self, last.other))

\* C14 witness: 0.01 USD and 0.01 GBP, equal amounts in different currencies,
\* were compared with == and reported not equal.
C14_Witness ==
    /\ last.op = "eq"
    /\ last.self = from_minor(IntLit(1), "USD")
    /\ last.other = from_minor(IntLit(1), "GBP")
    /\ last.out = Ok(FALSE)

(***************************************************************************)
(* Money::from_str.                                                        *)
(***************************************************************************)
\* LocalFormat::from_locale: the separators and the grouping pattern
LocalFormat(loc) ==
    CASE loc = "EnUs" -> [digit_separator |-> ",", exponent_separator |-> ".",
                          digit_separator_pattern |-> <<3, 3, 3>>]
      [] loc = "EnEu" -> [digit_separator |-> ".", exponent_separator |-> ",",
                          digit_separator_pattern |-> <<3, 3, 3>>]
      [] loc = "EnIn" -> [digit_separator |-> ",", exponent_separator |-> ".",
                          digit_separator_pattern |-> <<3, 2, 2>>]

\* impl From<ParseIntError> for MoneyError
MoneyErrorFromParseInt == "InvalidAmount"

\* str::split(sep): the pieces between the separators, at least one piece
RECURSIVE Split(_, _)
Split(str, sep) ==
    IF \A i \in 1..Len(str) : str[i] # sep THEN <<str>>
    ELSE LET k == CHOOSE i \in 1..Len(str) :
                     str[i] = sep /\ \A j \in 1..(i - 1) : str[j] # sep
         IN <<SubSeq(str, 1, k - 1)>> \o Split(SubSeq(str, k + 1, Len(str)), sep)

\* [&str]::concat
RECURSIVE Concat(_)
Concat(parts) == IF parts = <<>> THEN <<>> ELSE Head(parts) \o Concat(Tail(parts))

\* GroupMismatch with a fault: the leftmost group is checked like the others
GroupMismatch_Leftmost(split_decimal, pattern, k) ==
    \E j \in 1..Len(split_decimal) :
        j <= Len(pattern) /\ Len(split_decimal[Len(split_decimal) + 1 - j]) # pattern[j]

\* the sanity check of the decimal separation, from the k-th pattern entry on:
\* TRUE when a popped group has not the size the pattern gives
RECURSIVE GroupMismatch(_, _, _)
GroupMismatch(split_decimal, pattern, k) ==
    IF k > Len(pattern) \/ Len(split_decimal) <= 1 THEN FALSE
    ELSE IF Len(split_decimal[Len(split_decimal)]) # pattern[k] THEN TRUE
    ELSE GroupMismatch(SubSeq(split_decimal, 1, Len(split_decimal) - 1), pattern, k + 1)

from_str(amount, currency) ==
    LET format == LocalFormat(locale(currency))
        amount_parts == Split(amount, format.exponent_separator)
        split_decimal == Split(amount_parts[1], format.digit_separator)
        parsed_decimal == Concat(split_decimal)
        unwrap(text) ==
            LET decimal == DecimalFromStr(text)
            IN IF IsOk(decimal) THEN Ok(from_decimal(decimal.val, currency))
               ELSE Panic("called Result::unwrap() on an Err value")
    IN IF GroupMismatch(split_decimal, format.digit_separator_pattern, 1)
       THEN Err("InvalidAmount")
       ELSE IF Len(amount_parts) = 1
            THEN unwrap(parsed_decimal \o <<".">> \o
                        [i \in 1..exponent(currency) |-> "0"])
       ELSE IF Len(amount_parts) = 2
            THEN IF ~IsOk(I32FromStr(amount_parts[2])) THEN Err(MoneyErrorFromParseInt)
                 ELSE unwrap(parsed_decimal \o <<".">> \o amount_parts[2])
       ELSE Err("InvalidAmount")

(***************************************************************************)
(* The parsing specification: from_str is called on one input.             *)
(***************************************************************************)
Alphabet == {"0", "1", ",", ".", "-", "+", "a"}

ShortStrings == UNION {[1..n -> Alphabet] : n \in 0..MaxLen}

Signs == {<<>>, <<"-">>, <<"+">>}

Str(ds) == [i \in 1..Len(ds) |-> DigitChar(ds[i])]

\* "1", then up to MaxGroups groups of two or three zeros, each after a separator
GroupedStrings ==
    {Concat(<<sign, <<"1">>>> \o [i \in 1..Len(sizes) |-> <<sep>> \o Str(Zeros(sizes[i]))]) :
        sign \in Signs, sep \in {",", "."},
        sizes \in UNION {[1..n -> {2, 3}] : n \in 1..MaxGroups}}

\* integers without separators, up to and beyond the 64-bit and the 96-bit range
LongIntegers ==
    {sign \o Str(ds) :
        sign \in Signs,
        ds \in {<<1>> \o Zeros(n) : n \in 0..MaxZeros}
               \cup {I64_MAX, I64_MIN_ABS, U96_MAX, OVERFLOW_U96,
                     <<4,0,8,9,1,6,2,6,8,5,4,9,3>> \o Zeros(10)}}
    \cup {sign \o lead \o Concat([i \in 1..6 |-> <<sep>> \o g[i]]) :
            sign \in Signs, lead \in {<<"9">>, <<"1", "9">>}, sep \in {",", "."},
            g \in {<<Str(<<2,2,3>>), Str(<<3,7,2>>), Str(<<0,3,6>>),
                     Str(<<8,5,4>>), Str(<<7,7,5>>), Str(<<8,0,7>>)>>}}

\* a one-digit integer part and a fraction of up to MaxFrac digits
LongFractions ==
    {<<"1", sep>> \o Str(ds) :
        sep \in {".", ","},
        ds \in {[i \in 1..n |-> 1] : n \in 1..MaxFrac}
               \cup {I32_MAX, I32_MIN_ABS, <<0>> \o I32_MIN_ABS}}

ParseInputs == ShortStrings \cup GroupedStrings \cup LongIntegers \cup LongFractions

ParseCurrencies == {"GBP", "EUR", "INR", "ETH"}

InitParse ==
    /\ money = from_minor(IntLit(0), "GBP")
    /\ last = Pending
    /\ map = {}
    /\ hist = <<>>

FromStr ==
    /\ last = Pending
    /\ \E amount \in ParseInputs, currency \in ParseCurrencies :
          last' = [op |-> "from_str", amount |-> amount, currency |-> currency,
                   out |-> from_str(amount, currency)]
    /\ UNCHANGED <<money, map, hist>>

NextParse == FromStr

SpecParse == InitParse /\ [][NextParse]_vars

Parsed == last.op = "from_str"

Format == LocalFormat(locale(last.currency))

\* the input without its leading sign, and whether that sign is a minus
Unsigned(amount) ==
    IF amount # <<>> /\ amount[1] \in {"+", "-"} THEN Tail(amount) ELSE amount

IsNegative(amount) == amount # <<>> /\ amount[1] = "-"

\* the groups of the integer part of the input
IntegerGroups == Split(Split(last.amount, Format.exponent_separator)[1],
                       Format.digit_separator)

\* the size the pattern expects of the j-th group from the right; past the end
\* of the pattern its last entry repeats
ExpectedSize(j) ==
    LET pattern == Format.digit_separator_pattern
    IN pattern[IF j <= Len(pattern) THEN j ELSE Len(pattern)]

GroupFromRight(groups, j) == groups[Len(groups) + 1 - j]

\* C5 (as claimed): from_str returns a Money or an error for every input; it
\* never aborts.
C5_FromStrNeverAborts == Parsed => ~IsPanic(last.out)

\* C6 (as claimed): when the integer part has more than one group and a group
\* other than the leftmost has not the size expected at its position from the
\* right, from_str returns InvalidAmount, however many groups there are.
C6_MisgroupedIsInvalidAmount ==
    (/\ Parsed
     /\ Len(IntegerGroups) > 1
     /\ \E j \in 1..(Len(IntegerGroups) - 1) :
           Len(GroupFromRight(IntegerGroups, j)) # ExpectedSize(j))
    => IsErr(last.out, "InvalidAmount")

\* the input is digits, the exponent separator, digits
PlainDecimal ==
    LET parts == Split(last.amount, Format.exponent_separator)
    IN /\ Len(parts) = 2
       /\ parts[1] # <<>> /\ AllDigits(parts[1])
       /\ parts[2] # <<>> /\ AllDigits(parts[2])

\* C7 (as claimed): a fraction part made of digits only is accepted whatever its
\* length or magnitude, and the Money returned has the amount written.
C7_DigitFractionAccepted ==
    (Parsed /\ PlainDecimal) =>
        LET parts == Split(last.amount, Format.exponent_separator)
        IN /\ IsOk(last.out)
           /\ DecEq(last.out.val.amount,
                    DecimalFromParts(FALSE, DigitsOf(parts[1] \o parts[2]), Len(parts[2])))

\* C8 (as claimed): an input without any digit is InvalidAmount.
C8_NoDigitIsInvalidAmount ==
    (Parsed /\ \A i \in 1..Len(last.amount) : ~IsDigit(last.amount[i])) =>
        IsErr(last.out, "InvalidAmount")

\* the input is an optional sign and correctly grouped digit groups, without a
\* fraction part
GroupedInteger ==
    LET body == Unsigned(last.amount)
        groups == Split(body, Format.digit_separator)
    IN /\ \A i \in 1..Len(body) : body[i] # Format.exponent_separator
       /\ \A g \in 1..Len(groups) : groups[g] # <<>> /\ AllDigits(groups[g])
       /\ Len(groups) > 1 =>
             /\ \A j \in 1..(Len(groups) - 1) :
                   Len(GroupFromRight(groups, j)) = ExpectedSize(j)
             /\ Len(groups[1]) <= ExpectedSize(Len(groups))

\* the integer the digits of the input denote, separators ignored
DenotedInteger ==
    LET body == Unsigned(last.amount)
        digits == SelectSeq(body, IsDigit)
    IN IntOf(IsNegative(last.amount), DigitsOf(digits))

None == [tag |-> "None"]
Some(v) == [tag |-> "Some", val |-> v]

\* ExchangeRate::new
NewExchangeRate(from, to, rate) == [from |-> from, to |-> to, rate |-> rate]

\* Display of a currency: its code
to_string(currency) == currency

\* generate_key with a fault: the destination is left out of the key
generate_key_SourceOnly(from, to) == to_string(from) \o "-"

generate_key(from, to) == to_string(from) \o "-" \o to_string(to)

\* HashMap::insert with a fault: the other entries are dropped
MapInsert_Clearing(m, key, value) == {[key |-> key, value |-> value]}

\* HashMap::insert: the entry of the key is replaced
MapInsert(m, key, value) ==
    {e \in m : e.key # key} \cup {[key |-> key, value |-> value]}

\* HashMap::get(..).copied()
MapGet(m, key) ==
    IF \E e \in m : e.key = key
    THEN Some((CHOOSE e \in m : e.key = key).value)
    ELSE None

set_rate(m, rate) == MapInsert(m, generate_key(rate.from, rate.to), rate)

get_rate(m, from, to) == MapGet(m, generate_key(from, to))

(***************************************************************************)
(* The exchange specification: an Exchange is created empty, rates are     *)
(* set and looked up.                                                      *)
(***************************************************************************)
FromCurrencies == {"USD", "EUR"}
ToCurrencies == {"USD", "EUR", "GBP"}

\* the multipliers of the tests: 1.5 and 1.6
Multipliers == {Dec(15, 1), Dec(16, 1)}

InitExchange ==
    /\ money = from_minor(IntLit(0), "USD")
    /\ last = Pending
    /\ map = {}
    /\ hist = <<>>

SetRate ==
    /\ Len(hist) < MaxSets
    /\ \E from \in FromCurrencies, to \in ToCurrencies, rate \in Multipliers :
          LET r == NewExchangeRate(from, to, rate)
          IN /\ map' = set_rate(map, r)
             /\ hist' = Append(hist, r)
             /\ last' = [op |-> "set_rate", rate |-> r]
    /\ UNCHANGED money

GetRate ==
    /\ \E from \in FromCurrencies, to \in ToCurrencies :
          last' = [op |-> "get_rate", from |-> from, to |-> to,
                   out |-> get_rate(map, from, to)]
    /\ UNCHANGED <<money, map, hist>>

NextExchange == SetRate \/ GetRate

SpecExchange == InitExchange /\ [][NextExchange]_vars

\* the positions in hist of the set_rate calls for the ordered pair
SetsOf(from, to) == {i \in 1..Len(hist) : hist[i].from = from /\ hist[i].to = to}

LatestSet(from, to) ==
    hist[CHOOSE i \in SetsOf(from, to) : \A j \in SetsOf(from, to) : j <= i]

\* C10: get_rate for an ordered pair that has been set returns exactly the rate
\* of the most recent set_rate for that pair.
C10_GetRateReturnsLatestSet ==
    (last.op = "get_rate" /\ SetsOf(last.from, last.to) # {}) =>
        last.out = Some(LatestSet(last.from, last.to))

\* C10 witness: a pair was set twice with different multipliers, another pair
\* with the same source was set afterwards, and the first pair has been looked up.
C10_Witness ==
    /\ last.op = "get_rate"
    /\ Len(hist) = 3
    /\ hist[1].from = last.from /\ hist[1].to = last.to
    /\ hist[2].from = last.from /\ hist[2].to = last.to
    /\ hist[1].rate # hist[2].rate
    /\ hist[3].from = last.from /\ hist[3].to # last.to
    /\ last.out = Some(hist[2])

\* C11: in every state of an Exchange, get_rate for an ordered pair is absent
\* exactly when no set_rate for that ordered pair has occurred since creation
\* (so the new store is empty, setting a pair makes neither its inverse nor a
\* transitive pair present, and a pair once set stays present), and a lookup
\* that has been made returned absence exactly in that case.
C11_AbsentIffNeverSet ==
    /\ \A from \in FromCurrencies, to \in ToCurrencies :
          (get_rate(map, from, to) = None) <=> (SetsOf(from, to) = {})
    /\ last.op = "get_rate" =>
          ((last.out = None) <=> (SetsOf(last.from, last.to) = {}))

\* C11 witness: A->B and B->C were set, in that order; A->B is still present,
\* and the lookup of the transitive pair A->C returned absence, as B->A would.
C11_Witness ==
    /\ Len(hist) = 2
    /\ hist[1].from = "USD" /\ hist[1].to = "EUR"
    /\ hist[2].from = "EUR" /\ hist[2].to = "GBP"
    /\ get_rate(map, "USD", "EUR") # None
    /\ get_rate(map, "EUR", "USD") = None
    /\ last.op = "get_rate" /\ last.from = "USD" /\ last.to = "GBP"
    /\ last.out = None

(***************************************************************************)
(* ExchangeRate::convert, and the specification of a conversion: the       *)
(* caller holds a Money and converts it with a rate.                       *)
(***************************************************************************)
\* convert with a fault: the result keeps the currency of the amount
convert_KeepsCurrency(self, amount) ==
    IF amount.currency # self.from THEN Err("InvalidCurrency")
    ELSE Wrap(DecMul(amount.amount, self.rate), amount.currency)

convert(self, amount) ==
    IF amount.currency # self.from THEN Err("InvalidCurrency")
    ELSE Wrap(DecMul(amount.amount, self.rate), self.to)

\* multipliers in tenths: negative, zero, and the 1.5 and 1.6 of the tests
ConvertMultipliers == {Dec(m, 1) : m \in -MaxTenths..MaxTenths}

ConvertRates ==
    {NewExchangeRate(from, to, rate) :
        from \in FromCurrencies, to \in ToCurrencies, rate \in ConvertMultipliers}

\* a few minor units, whole amounts, and amounts at the limits of Decimal
ConvertMoney ==
    OpsMoney \cup WideMoney \cup
    {from_minor(IntLit(100 * n), c) : n \in -MaxMajor..MaxMajor, c \in FromCurrencies}

InitConvert ==
    /\ money \in ConvertMoney
    /\ last = Pending
    /\ map = {}
    /\ hist = <<>>

Convert ==
    /\ last = Pending
    /\ \E rate \in ConvertRates :
          last' = [op |-> "convert", rate |-> rate, out |-> convert(rate, money)]
    /\ UNCHANGED <<money, map, hist>>

NextConvert == Convert

SpecConvert == InitConvert /\ [][NextConvert]_vars

\* the exact product of two Decimals, whatever its size
ExactProduct(a, b) ==
    DecimalFromParts(a.neg # b.neg, NatMul(a.digits, b.digits), a.scale + b.scale)

\* a value a Decimal can hold: a mantissa below 2^96 at a scale of at most 28
Representable(v) ==
    ~Overflow96(Normalize(v).digits) /\ Normalize(v).scale <= 28

\* C12 as stated: convert returns the error InvalidCurrency exactly when the
\* currency of the money differs from the source currency of the rate;
\* otherwise it returns a Money in the destination currency whose amount is the
\* exact product of the amount and the rate (nothing is rounded away), for
\* positive, zero and negative rates.
C12_ConvertMultipliesExactly ==
    last.op = "convert" =>
        /\ IsErr(last.out, "InvalidCurrency") <=> (money.currency # last.rate.from)
        /\ money.currency = last.rate.from =>
              /\ IsOk(last.out)
              /\ last.out.val.currency = last.rate.to
              /\ DecEq(last.out.val.amount, ExactProduct(money.amount, last.rate.rate))

\* C12: convert returns the error InvalidCurrency exactly when the currency of
\* the money differs from the source currency of the rate; otherwise, when the
\* exact product of the amount and the rate is a value a Decimal can hold, it
\* returns a Money in the destination currency whose amount is that product
\* (nothing is rounded away), for positive, zero and negative rates.
C12_ConvertMultipliesExactlyWithinDecimal ==
    last.op = "convert" =>
        /\ IsErr(last.out, "InvalidCurrency") <=> (money.currency # last.rate.from)
        /\ (/\ money.currency = last.rate.from
            /\ Representable(ExactProduct(money.amount, last.rate.rate))) =>
              /\ IsOk(last.out)
              /\ last.out.val.currency = last.rate.to
              /\ DecEq(last.out.val.amount, ExactProduct(money.amount, last.rate.rate))

\* C12 witness: the rate 1.5 from USD to EUR converted 10.00 USD to 15.00 EUR.
C12_Witness ==
    /\ last.op = "convert"
    /\ MoneyEq(money, from_minor(IntLit(1000), "USD"))
    /\ last.rate = NewExchangeRate("USD", "EUR", Dec(15, 1))
    /\ IsOk(last.out)
    /\ MoneyEq(last.out.val, from_minor(IntLit(1500), "EUR"))

(***************************************************************************)
(* The specification of construction: a Money is made from major units,    *)
(* then one from minor units, as in tests::money_major_minor.              *)
(***************************************************************************)
ConstructCurrencies == {"USD", "BHD", "ETH"}

InI64(n) ==
    IF n.neg THEN ~NatLess(I64_MIN_ABS, n.digits) ELSE ~NatLess(I64_MAX, n.digits)

\* the i64 arguments of from_major: small ones, the powers of ten, the extremes
MajorInputs ==
    {n \in {IntLit(k) : k \in -MaxMajor..MaxMajor}
            \cup {IntOf(neg, <<1>> \o Zeros(k)) : neg \in BOOLEAN, k \in 0..MaxZeros}
            \cup {IntOf(FALSE, I64_MAX), IntOf(TRUE, I64_MIN_ABS)} : InI64(n)}

\* n * 10^e in i128 (e <= 18, so the product of an i64 fits)
ScaleUp(n, e) == IntOf(n.neg, n.digits \o Zeros(e))

InitConstruct ==
    /\ money = from_major(IntLit(0), "USD")
    /\ last = Pending
    /\ map = {}
    /\ hist = <<>>

FromMajor ==
    /\ last = Pending
    /\ \E n \in MajorInputs, c \in ConstructCurrencies :
          /\ money' = from_major(n, c)
          /\ last' = [op |-> "from_major", amount |-> n, currency |-> c]
    /\ UNCHANGED <<map, hist>>

\* from_minor is called with the major amount scaled by the exponent of some
\* currency, or with a few minor units
FromMinor ==
    /\ last.op = "from_major"
    /\ \E c \in ConstructCurrencies :
          \E m \in {ScaleUp(last.amount, exponent(k)) : k \in ConstructCurrencies}
                    \cup {IntLit(k) : k \in -MaxMinor..MaxMinor} :
             last' = [op |-> "from_minor", amount |-> m, currency |-> c,
                      major |-> last.amount, out |-> from_minor(m, c)]
    /\ UNCHANGED <<money, map, hist>>

NextConstruct == FromMajor \/ FromMinor

SpecConstruct == InitConstruct /\ [][NextConstruct]_vars

\* from_minor was called with n * 10^e in the currency of from_major(n, c)
ScaledMinorCall ==
    /\ last.op = "from_minor"
    /\ last.currency = money.currency
    /\ last.amount = ScaleUp(last.major, exponent(last.currency))

\* C13 as stated: for every currency c with exponent e and every integer n,
\* from_minor(n * 10^e, c) returns a Money equal to from_major(n, c), equality
\* comparing the numeric value whatever the stored scale.
C13_MajorEqualsScaledMinor ==
    ScaledMinorCall => (~Aborted(last.out) /\ MoneyEq(money, last.out))

\* C13: for every currency c with exponent e and every integer n whose minor
\* amount n * 10^e has a magnitude below 2^96, from_minor(n * 10^e, c) returns a
\* Money equal to from_major(n, c), equality comparing the numeric value
\* whatever the stored scale.
C13_MajorEqualsScaledMinorWithin96Bits ==
    (ScaledMinorCall /\ ~Overflow96(last.amount.digits)) =>
        (~Aborted(last.out) /\ MoneyEq(money, last.out))

\* C13 witness: 10^10 ETH from major units (scale 0) and 10^28 wei from minor
\* units (scale 18, beyond 64 bits) are equal.
C13_Witness ==
    /\ ScaledMinorCall
    /\ last.currency = "ETH"
    /\ last.major = IntOf(FALSE, <<1>> \o Zeros(10))
    /\ ~Aborted(last.out)
    /\ money.amount.scale = 0 /\ last.out.amount.scale = 18
    /\ MoneyEq(money, last.out)

(***************************************************************************)
(* Money::round, and the specification of rounding: the caller holds a     *)
(* Money and asks for it rounded.                                          *)
(***************************************************************************)
\* Decimal::round_dp_with_strategy: a value of no more than dp fractional
\* digits is returned as it is; otherwise the mantissa is divided by the
\* power of ten and the remainder is compared with half of it
round_dp_with_strategy(d, dp, strategy) ==
    IF d.scale <= dp THEN d
    ELSE LET divisor == Pow10(d.scale - dp)
             quotient == Abs(Mant(d)) \div divisor
             remainder == Abs(Mant(d)) % divisor
             up == CASE strategy = "MidpointAwayFromZero" -> 2 * remainder >= divisor
                     [] strategy = "MidpointTowardZero" -> 2 * remainder > divisor
                     [] strategy = "MidpointNearestEven" ->
                          \/ 2 * remainder > divisor
                          \/ 2 * remainder = divisor /\ quotient % 2 = 1
         IN DecimalFromParts(d.neg,
                             NatDigits(IF up THEN quotient + 1 ELSE quotient), dp)

\* enum Round
RoundStrategies == {"HalfUp", "HalfDown", "HalfEven"}

\* round with a fault: HalfDown and HalfUp are exchanged
round_Exchanged(self, digits, strategy) ==
    [self EXCEPT !.amount =
        CASE strategy = "HalfDown" ->
               round_dp_with_strategy(self.amount, digits, "MidpointAwayFromZero")
          [] strategy = "HalfUp" ->
               round_dp_with_strategy(self.amount, digits, "MidpointTowardZero")
          [] strategy = "HalfEven" ->
               round_dp_with_strategy(self.amount, digits, "MidpointNearestEven")]

round(self, digits, strategy) ==
    [self EXCEPT !.amount =
        CASE strategy = "HalfDown" ->
               round_dp_with_strategy(self.amount, digits, "MidpointTowardZero")
          [] strategy = "HalfUp" ->
               round_dp_with_strategy(self.amount, digits, "MidpointAwayFromZero")
          [] strategy = "HalfEven" ->
               round_dp_with_strategy(self.amount, digits, "MidpointNearestEven")]

RoundCurrencies == {"USD", "BHD"}

RoundMoney ==
    {from_minor(IntLit(n), c) : n \in -MaxRound..MaxRound, c \in RoundCurrencies}

InitRound ==
    /\ money \in RoundMoney
    /\ last = Pending
    /\ map = {}
    /\ hist = <<>>

\* round takes &self: the receiver stays as it is
DoRound ==
    /\ last = Pending
    /\ \E digits \in 0..MaxDigits, strategy \in RoundStrategies :
          last' = [op |-> "round", self |-> money, digits |-> digits,
                   strategy |-> strategy, out |-> round(money, digits, strategy)]
    /\ UNCHANGED <<money, map, hist>>

NextRound == DoRound

SpecRound == InitRound /\ [][NextRound]_vars

====
